---- MODULE Spec2Model ----
(***************************************************************************)
(* Tabular value iteration (part1/tabular_value_iteration.py): the class   *)
(* ValueIteration with train, get_next_values, get_next_policy and         *)
(* _stop_condition.                                                        *)
(*                                                                         *)
(* Numbers.  The program computes in floating point; the model computes in *)
(* exact rationals <<n, d>> (d > 0, lowest terms), i.e. it reads every     *)
(* float operation as the real operation it approximates.  Two places need *)
(* more than rationals:                                                    *)
(*   - discount ** itr is kept as an enclosure [PowLo, PowHi] in fixed     *)
(*     point of PowScale, so that 0.9 ** 88 fits machine integers; a       *)
(*     comparison the enclosure does not decide has both outcomes;         *)
(*   - np.exp and np.log are irrational away from exp(0) = 1, log(1) = 0;  *)
(*     there they are rational approximants (see Exp, Log).                *)
(***************************************************************************)
EXTENDS Integers, Sequences, FiniteSets, TLC

VARIABLES
    transitions,   \* self.transitions : [s][a][s'] -> probability
    rewards,       \* self.rewards     : [s][a][s'] -> reward
    discount,      \* self.discount
    precision,     \* self.precision
    log_itr,       \* self.log_itr
    max_itr,       \* self.max_itr
    policy_type,   \* self.policy_type
    temperature,   \* self.temperature
    value_fun,     \* the array held by the value container
    policy,        \* the table held by the policy container
    next_v,        \* train's local next_v
    v,             \* train's local v
    itr,           \* train's local itr
    stop,          \* result of the last call of _stop_condition
    pc,            \* position in train ("call" / "returned" for a lone call)
    prev_v,        \* history: the array the last backup read
    n_value_upd,   \* history: calls of value_fun.update so far
    n_policy_upd   \* history: calls of policy.update so far

vars == <<transitions, rewards, discount, precision, log_itr, max_itr,
          policy_type, temperature, value_fun, policy, next_v, v, itr, stop,
          pc, prev_v, n_value_upd, n_policy_upd>>

----------------------------------------------------------------------------
(* Bounds of the model *)

\* largest max_itr of the enumerated runs
MaxIter == 3

\* max_itr of the run of the concrete scenario (at least 90)
ScenarioMaxItr == 90

\* largest itr handed to a lone call of _stop_condition
MaxStopItr == 4

\* largest log_itr of the enumerated runs
MaxLogItr == 2

----------------------------------------------------------------------------
(* Rational arithmetic *)

AbsInt(n) == IF n < 0 THEN -n ELSE n

RECURSIVE Gcd(_, _)
Gcd(a, b) == IF b = 0 THEN a ELSE Gcd(b, a % b)

Rat(n, d) ==
    LET g == Gcd(AbsInt(n), AbsInt(d))
        s == IF d < 0 THEN -1 ELSE 1
    IN  <<(s * n) \div g, (s * d) \div g>>

Zero == <<0, 1>>
One == <<1, 1>>
Two == <<2, 1>>

Add(a, b) ==
    LET g == Gcd(a[2], b[2])
    IN  Rat(a[1] * (b[2] \div g) + b[1] * (a[2] \div g), (a[2] \div g) * b[2])

Neg(a) == <<-a[1], a[2]>>

Sub(a, b) == Add(a, Neg(b))

Mul(a, b) ==
    LET g1 == Gcd(AbsInt(a[1]), b[2])
        g2 == Gcd(AbsInt(b[1]), a[2])
    IN  Rat((a[1] \div g1) * (b[1] \div g2), (a[2] \div g2) * (b[2] \div g1))

\* a / b for b # 0
Div(a, b) == Mul(a, Rat(b[2], b[1]))

\* a/b < c/d for b, d > 0, by integer parts and then the reciprocals of the
\* fractional parts, so that no product is formed
RECURSIVE LessFrac(_, _, _, _)
LessFrac(a, b, c, d) ==
    IF a \div b # c \div d THEN a \div b < c \div d
    ELSE IF c % d = 0 THEN FALSE
    ELSE IF a % b = 0 THEN TRUE
    ELSE LessFrac(d, c % d, b, a % b)

Less(a, b) == LessFrac(a[1], a[2], b[1], b[2])

Leq(a, b) == ~Less(b, a)

Abs(a) == <<AbsInt(a[1]), a[2]>>

Max2(a, b) == IF Less(a, b) THEN b ELSE a

\* np.sum / np.max of f over the indices 0 .. n-1
RECURSIVE SumTo(_, _)
SumTo(f, n) == IF n = 0 THEN Zero ELSE Add(SumTo(f, n - 1), f[n - 1])

RECURSIVE MaxTo(_, _)
MaxTo(f, n) == IF n = 1 THEN f[0] ELSE Max2(MaxTo(f, n - 1), f[n - 1])

\* np.argmax taken as the last index holding the maximum
ArgMaxLast(f, n) ==
    CHOOSE a \in 0 .. n - 1 :
        /\ f[a] = MaxTo(f, n)
        /\ \A b \in a + 1 .. n - 1 : f[b] # MaxTo(f, n)

\* np.argmax: the first index holding the maximum
ArgMax(f, n) ==
    CHOOSE a \in 0 .. n - 1 :
        /\ f[a] = MaxTo(f, n)
        /\ \A b \in 0 .. a - 1 : f[b] # MaxTo(f, n)

\* np.exp(x) for x <= 0: exact at 0, else the approximant 1/(1 - x + x^2/2)
Exp(x) ==
    IF x = Zero THEN One
    ELSE Div(One, Add(Sub(One, x), Div(Mul(x, x), Two)))

\* np.log(y) for y >= 1: exact at 1, else the approximant 2(y - 1)/(y + 1)
Log(y) ==
    IF y = One THEN Zero
    ELSE Div(Mul(Two, Sub(y, One)), Add(y, One))

----------------------------------------------------------------------------
(* The environment: env.transitions, env.rewards, env.discount *)

Half == <<1, 2>>

NumStates == Cardinality(DOMAIN transitions)
NumActions == Cardinality(DOMAIN transitions[0])
States == 0 .. NumStates - 1
Actions == 0 .. NumActions - 1

\* S = 2, A = 1: state 1 absorbing, reward 1 for the move 0 -> 1
ChainT == [s \in 0 .. 1 |-> [a \in 0 .. 0 |-> [t \in 0 .. 1 |->
              IF t = 1 THEN One ELSE Zero]]]
ChainR == [s \in 0 .. 1 |-> [a \in 0 .. 0 |-> [t \in 0 .. 1 |->
              IF s = 0 /\ t = 1 THEN One ELSE Zero]]]

\* S = 2, A = 2: in state 0 action 0 is a coin flip, action 1 moves to 1;
\* in state 1 action 0 moves to 0, action 1 stays
TwoT == [s \in 0 .. 1 |-> [a \in 0 .. 1 |-> [t \in 0 .. 1 |->
            IF s = 0 /\ a = 0 THEN Half
            ELSE IF s = 0 THEN (IF t = 1 THEN One ELSE Zero)
            ELSE IF a = 0 THEN (IF t = 0 THEN One ELSE Zero)
            ELSE (IF t = 1 THEN One ELSE Zero)]]]
\* Q(0,0) = Q(0,1) whenever V(0) = V(1); the largest |reward| is 2
TwoR == [s \in 0 .. 1 |-> [a \in 0 .. 1 |-> [t \in 0 .. 1 |->
            IF s = 0 /\ a = 0 THEN (IF t = 0 THEN Two ELSE Zero)
            ELSE IF s = 0 THEN One
            ELSE IF a = 0 THEN Neg(Two)
            ELSE One]]]
\* the same transitions with no reward anywhere
NoR == [s \in 0 .. 1 |-> [a \in 0 .. 1 |-> [t \in 0 .. 1 |-> Zero]]]

Envs == {<<ChainT, ChainR>>, <<TwoT, TwoR>>, <<TwoT, NoR>>}

Discounts == {Zero, Half, <<9, 10>>}

Precisions == {<<1, 1000>>, Half, One}

\* initial contents of the value container
InitValues == {Neg(One), Zero, Two}

\* self.temperature in max_ent mode
Temperatures == {One, Half}

PolicyTypes == {"deterministic", "max_ent"}

\* next_v = 1e6, broadcast over the states by numpy
Sentinel == 1000000

----------------------------------------------------------------------------
(* The containers: value_fun.get_values / update, policy.update *)

\* update(new) replaces what the container holds; the array handed out by an
\* earlier get_values() is left as it was
Update(held, new) == new

----------------------------------------------------------------------------
(* get_next_values, get_next_policy *)

\* v_s[a] = np.sum(transitions[s, a] * (rewards[s, a] + discount * V))
QValue(V, s, a) ==
    SumTo([t \in States |->
              Mul(transitions[s][a][t],
                  Add(rewards[s][a][t], Mul(discount, V[t])))], NumStates)

QRow(V, s) == [a \in Actions |-> QValue(V, s, a)]

\* v_s -= np.max(v_s)
Shifted(row) == [a \in Actions |-> Sub(row[a], MaxTo(row, NumActions))]

\* np.exp(v_s / temperature)
ExpRow(row) == [a \in Actions |-> Exp(Div(Shifted(row)[a], temperature))]

\* np.log(np.sum(np.exp(v_s / temperature))) * temperature
SoftValue(row) == Mul(Log(SumTo(ExpRow(row), NumActions)), temperature)

GetNextValues(V) ==
    IF policy_type = "deterministic"
    THEN [s \in States |-> MaxTo(QRow(V, s), NumActions)]
    ELSE [s \in States |-> SoftValue(QRow(V, s))]

\* pi[s, best_action] = 1.0 on a table of zeros
OneHot(best) == [a \in Actions |-> IF a = best THEN One ELSE Zero]

\* softmax_probs /= np.sum(softmax_probs)
SoftRow(row) ==
    [a \in Actions |-> Div(ExpRow(row)[a], SumTo(ExpRow(row), NumActions))]

GetNextPolicy(V) ==
    IF policy_type = "deterministic"
    THEN [s \in States |-> OneHot(ArgMax(QRow(V, s), NumActions))]
    ELSE [s \in States |-> SoftRow(QRow(V, s))]

----------------------------------------------------------------------------
(* _stop_condition *)

\* rmax = np.max(np.abs(self.env.rewards))
Rmax ==
    MaxTo([s \in States |->
              MaxTo([a \in Actions |->
                        MaxTo([t \in States |-> Abs(rewards[s][a][t])],
                              NumStates)], NumActions)], NumStates)

\* np.max(np.abs(next_v - v))
SupNorm(nv, cv) == MaxTo([s \in States |-> Abs(Sub(nv[s], cv[s]))], NumStates)

\* the threshold with the factor multiplied instead of divided
ThresholdInverted ==
    Mul(precision, Div(Mul(Two, discount), Sub(One, discount)))

\* self.precision / (2 * self.discount / (1 - self.discount)), discount # 0
Threshold == Div(precision, Div(Mul(Two, discount), Sub(One, discount)))

\* cond1; with discount = 0 the divisor is 0.0: a Python float raises
\* ZeroDivisionError (see StopRaises), a numpy scalar yields inf and the
\* comparison is true
Cond1(nv, cv) ==
    IF discount = Zero THEN TRUE ELSE Less(SupNorm(nv, cv), Threshold)

\* discount ** itr, enclosed by square-and-multiply in fixed point:
\* PowLo(n) / PowScale <= discount^n <= PowHi(n) / PowScale
PowBase == 10 ^ 4
PowScale == PowBase * PowBase

\* floor and ceiling of x * y / PowScale for 0 <= x, y <= PowScale, by halves
\* of the operands so that no product exceeds the machine integers
MulFrac(x, y) ==
    (((x \div PowBase) * (y % PowBase) + (x % PowBase) * (y \div PowBase))
        % PowBase) * PowBase + (x % PowBase) * (y % PowBase)

MulFloor(x, y) ==
    (x \div PowBase) * (y \div PowBase)
    + ((x \div PowBase) * (y % PowBase) + (x % PowBase) * (y \div PowBase))
        \div PowBase
    + MulFrac(x, y) \div PowScale

MulCeil(x, y) ==
    MulFloor(x, y) + (IF MulFrac(x, y) % PowScale = 0 THEN 0 ELSE 1)

RECURSIVE PowLo(_)
PowLo(n) ==
    IF n = 0 THEN PowScale
    ELSE IF n % 2 = 0 THEN MulFloor(PowLo(n \div 2), PowLo(n \div 2))
    ELSE MulFloor(PowLo(n - 1), (PowScale * discount[1]) \div discount[2])

RECURSIVE PowHi(_)
PowHi(n) ==
    IF n = 0 THEN PowScale
    ELSE IF n % 2 = 0 THEN MulCeil(PowHi(n \div 2), PowHi(n \div 2))
    ELSE MulCeil(PowHi(n - 1),
                 -((-(PowScale * discount[1])) \div discount[2]))

\* cond2 without the factor discount ** itr
Cond2AtNoPow(p) == Less(Div(Rmax, Sub(One, discount)), precision)

\* p * rmax / (1 - discount) < precision, for p standing for discount ** itr
Cond2At(p) == Less(Div(Mul(p, Rmax), Sub(One, discount)), precision)

\* cond2: the outcomes the enclosure of discount ** itr allows
Cond2(n) == {Cond2At(Rat(PowLo(n), PowScale)), Cond2At(Rat(PowHi(n), PowScale))}

\* return cond1 and cond2
StopConditionAnd(n, nv, cv) == {Cond1(nv, cv) /\ c2 : c2 \in Cond2(n)}

\* return cond1 or cond2: the set of values a call can return
StopCondition(n, nv, cv) == {Cond1(nv, cv) \/ c2 : c2 \in Cond2(n)}

\* the call can raise ZeroDivisionError: float division by zero
StopRaises == discount = Zero

----------------------------------------------------------------------------
(* train *)

TypeOK ==
    /\ pc \in {"test", "body", "final", "done", "error", "call", "returned"}
    /\ itr \in Nat
    /\ stop \in BOOLEAN

\* the state at the first evaluation of the while condition
Start(T, R, g, p, l, m, pt, tau, V0) ==
    /\ transitions = T
    /\ rewards = R
    /\ discount = g
    /\ precision = p
    /\ log_itr = l
    /\ max_itr = m
    /\ policy_type = pt
    /\ temperature = tau
    /\ value_fun = V0
    /\ policy = [s \in DOMAIN T |-> [a \in DOMAIN T[0] |-> Zero]]
    /\ next_v = [s \in DOMAIN T |-> <<Sentinel, 1>>]
    /\ v = V0
    /\ itr = 0
    /\ stop = FALSE
    /\ pc = "test"
    /\ prev_v = V0
    /\ n_value_upd = 0
    /\ n_policy_upd = 0

\* the runs enumerated: every environment, discount and precision in
\* deterministic mode, the single-action environment in max_ent mode
InitRuns ==
    \E e \in Envs, g \in Discounts, p \in Precisions, l \in 1 .. MaxLogItr,
       m \in 0 .. MaxIter, pt \in PolicyTypes, tau \in Temperatures,
       V0 \in [0 .. 1 -> InitValues] :
        /\ pt = "deterministic" => tau = One
        \* exp and log are exact only where every action ties with the best
        /\ pt = "max_ent" => e[1] = ChainT
        /\ Start(e[1], e[2], g, p, l, m, pt, tau, V0)

\* the concrete scenario: chain, discount 0.9, precision 1e-3, V = [0, 0]
InitScenario ==
    \E m \in ScenarioMaxItr .. ScenarioMaxItr + 1 :
        Start(ChainT, ChainR, <<9, 10>>, <<1, 1000>>, 1, m, "deterministic",
              One, [s \in 0 .. 1 |-> Zero])

Init == InitRuns \/ InitScenario

\* while not self._stop_condition(itr, next_v, v) and itr < self.max_itr
LoopTest ==
    /\ pc = "test"
    /\ \E r \in StopCondition(itr, next_v, v) :
        /\ stop' = r
        /\ pc' = IF ~r /\ itr < max_itr THEN "body" ELSE "final"
    /\ UNCHANGED <<transitions, rewards, discount, precision, log_itr, max_itr,
                   policy_type, temperature, value_fun, policy, next_v, v,
                   itr, prev_v, n_value_upd, n_policy_upd>>

\* the same test when _stop_condition raises
LoopTestRaise ==
    /\ pc = "test"
    /\ StopRaises
    /\ pc' = "error"
    /\ UNCHANGED <<transitions, rewards, discount, precision, log_itr, max_itr,
                   policy_type, temperature, value_fun, policy, next_v, v,
                   itr, stop, prev_v, n_value_upd, n_policy_upd>>

\* log taken on the iterations just before a multiple of log_itr
LogOffByOne(i) == (i + 1) % log_itr = 0

\* log = itr % self.log_itr == 0
Log_(i) == i % log_itr = 0

\* one pass through the body of the while loop; train's v is assigned once,
\* before the loop, and update() replaces the container's array, so v keeps
\* naming the initial array
LoopBody ==
    /\ pc = "body"
    /\ policy' = IF Log_(itr) THEN Update(policy, GetNextPolicy(value_fun))
                 ELSE policy
    /\ n_policy_upd' = IF Log_(itr) THEN n_policy_upd + 1 ELSE n_policy_upd
    /\ next_v' = GetNextValues(value_fun)
    /\ value_fun' = Update(value_fun, next_v')
    /\ n_value_upd' = n_value_upd + 1
    /\ prev_v' = value_fun
    /\ itr' = itr + 1
    /\ pc' = "test"
    /\ UNCHANGED <<transitions, rewards, discount, precision, log_itr, max_itr,
                   policy_type, temperature, v, stop>>

\* train returning without the final policy update
FinalKeepsPolicy ==
    /\ pc = "final"
    /\ pc' = "done"
    /\ UNCHANGED <<transitions, rewards, discount, precision, log_itr, max_itr,
                   policy_type, temperature, value_fun, policy, next_v, v,
                   itr, stop, prev_v, n_value_upd, n_policy_upd>>

\* after the loop: next_pi = self.get_next_policy(); self.policy.update(next_pi)
Final ==
    /\ pc = "final"
    /\ policy' = Update(policy, GetNextPolicy(value_fun))
    /\ n_policy_upd' = n_policy_upd + 1
    /\ pc' = "done"
    /\ UNCHANGED <<transitions, rewards, discount, precision, log_itr, max_itr,
                   policy_type, temperature, value_fun, next_v, v, itr, stop,
                   prev_v, n_value_upd>>

Next == LoopTest \/ LoopTestRaise \/ LoopBody \/ Final

Spec == Init /\ [][Next]_vars

----------------------------------------------------------------------------
(* A lone call of _stop_condition(itr, next_v, v) on arbitrary arguments *)

InitStop ==
    \E e \in Envs, g \in Discounts, p \in Precisions, k \in 0 .. MaxStopItr,
       nv \in [0 .. 1 -> InitValues \cup {<<Sentinel, 1>>}],
       cv \in [0 .. 1 -> InitValues] :
        /\ transitions = e[1]
        /\ rewards = e[2]
        /\ discount = g
        /\ precision = p
        /\ log_itr = 1
        /\ max_itr = k
        /\ policy_type = "deterministic"
        /\ temperature = One
        /\ value_fun = cv
        /\ policy = [s \in DOMAIN e[1] |-> [a \in DOMAIN e[1][0] |-> Zero]]
        /\ next_v = nv
        /\ v = cv
        /\ itr = k
        /\ stop = FALSE
        /\ pc = "call"
        /\ prev_v = cv
        /\ n_value_upd = 0
        /\ n_policy_upd = 0

CallStop ==
    /\ pc = "call"
    /\ \E r \in StopCondition(itr, next_v, v) : stop' = r
    /\ pc' = "returned"
    /\ UNCHANGED <<transitions, rewards, discount, precision, log_itr, max_itr,
                   policy_type, temperature, value_fun, policy, next_v, v,
                   itr, prev_v, n_value_upd, n_policy_upd>>

CallStopRaise ==
    /\ pc = "call"
    /\ StopRaises
    /\ pc' = "error"
    /\ UNCHANGED <<transitions, rewards, discount, precision, log_itr, max_itr,
                   policy_type, temperature, value_fun, policy, next_v, v,
                   itr, stop, prev_v, n_value_upd, n_policy_upd>>

NextStop == CallStop \/ CallStopRaise

SpecStop == InitStop /\ [][NextStop]_vars

----------------------------------------------------------------------------
(* Properties *)

ZeroV == [s \in States |-> Zero]

Deterministic == policy_type = "deterministic"

\* train has left its while loop
LoopLeft == pc \in {"final", "done"}

\* C1: every loop test after a backup compares the latest backup's result
\* (next_v) with the estimate that backup was computed from.
\* Fails: v is bound once, before the loop, to the initial array.
C1_TestComparesSuccessiveEstimates ==
    (pc = "test" /\ itr >= 1) => (next_v = GetNextValues(prev_v) /\ v = prev_v)

\* C2: in max_ent mode get_next_values adds the subtracted maximum back, so
\* V'(s) >= max_a Q(s, a), and V'(s) = Q(s, 0) when there is one action.
\* Fails: the maximum is subtracted and never added back.
C2_SoftValueAddsMaxBack ==
    (policy_type = "max_ent" /\ pc = "test" /\ itr >= 1) =>
        \A s \in States :
            /\ Leq(MaxTo(QRow(prev_v, s), NumActions), next_v[s])
            /\ NumActions = 1 => next_v[s] = QValue(prev_v, s, 0)

\* the exact power g ** n
RECURSIVE PowExact(_, _)
PowExact(g, n) == IF n = 0 THEN One ELSE Mul(g, PowExact(g, n - 1))

\* the fixed points of the deterministic backup among the candidates
FixValues == {Zero, One, Two, <<10, 1>>}
FixedPoints == {W \in [States -> FixValues] : GetNextValues(W) = W}

\* W is within d of U in every state
Within(U, W, d) == \A s \in States : Less(Abs(Sub(U[s], W[s])), d)

InitNear(W) ==
    \A s \in States :
        Leq(Abs(Sub(v[s], W[s])), Div(Rmax, Sub(One, discount)))

\* the loop was not left on the test of the placeholder next_v = 1e6 alone
NotOnPlaceholder == itr >= 1 \/ Cond2(itr) = {TRUE}

C4_StopIsCond1OrCond2 ==
    (pc = "returned" /\ discount # Zero) =>
        (stop <=>
            \/ \A s \in States :
                  Less(Mul(Abs(Sub(next_v[s], v[s])), Mul(Two, discount)),
                       Mul(precision, Sub(One, discount)))
            \/ Less(Mul(PowExact(discount, itr), Rmax),
                    Mul(precision, Sub(One, discount))))

\* a call at the first itr whose worst-case bound is below precision, with
\* next_v and v far apart, has returned true
C4_Witness ==
    /\ pc = "returned" /\ discount # Zero /\ stop
    /\ itr >= 1
    /\ ~Less(Mul(PowExact(discount, itr - 1), Rmax),
             Mul(precision, Sub(One, discount)))
    /\ \E s \in States : Less(precision, Abs(Sub(next_v[s], v[s])))

\* the run of the concrete scenario
Scenario ==
    /\ transitions = ChainT /\ rewards = ChainR
    /\ discount = <<9, 10>> /\ precision = <<1, 1000>>
    /\ Deterministic /\ v = ZeroV /\ max_itr >= 90

\* C5: in the scenario the loop is left with _stop_condition true, after at
\* most 90 backups, and the value container holds [1, 0].
C5_ScenarioConverges ==
    (Scenario /\ LoopLeft) =>
        /\ stop
        /\ itr <= 90 /\ n_value_upd = itr
        /\ value_fun = [s \in States |-> IF s = 0 THEN One ELSE Zero]

C5_Witness == Scenario /\ pc = "done" /\ stop /\ itr < max_itr

\* row is 1 at action a and 0 elsewhere
OneHotAt(row, a) == \A b \in Actions : row[b] = (IF b = a THEN One ELSE Zero)

\* a is the lowest-indexed action whose Q-value under V is the largest in s
FirstBest(V, s, a) ==
    /\ \A b \in Actions : Leq(QValue(V, s, b), QValue(V, s, a))
    /\ \A b \in 0 .. a - 1 : Less(QValue(V, s, b), QValue(V, s, a))

\* policy is what get_next_policy returned for V
Greedy(V) ==
    \A s \in States : \E a \in Actions : OneHotAt(policy[s], a) /\ FirstBest(V, s, a)

\* C6: in deterministic mode each row of the policy get_next_policy returns
\* is one-hot at the lowest-indexed action of largest Q-value: after the
\* final update for the final estimate, and after a logging iteration for
\* the estimate that iteration started from.
C6_OneHotAtFirstBest ==
    /\ (Deterministic /\ pc = "done") => Greedy(value_fun)
    /\ (Deterministic /\ pc = "test" /\ itr >= 1 /\ (itr - 1) % log_itr = 0) =>
          Greedy(prev_v)

\* a returned policy for an estimate under which two actions tie for best
C6_Witness ==
    /\ Deterministic /\ pc = "done"
    /\ \E s \in States : \E a, b \in Actions :
          /\ a < b
          /\ QValue(value_fun, s, a) = QValue(value_fun, s, b)
          /\ FirstBest(value_fun, s, a)
          /\ policy[s][a] = One

\* C7: when train returns in deterministic mode the policy container holds
\* get_next_policy of the final estimate; the action it selects in s has the
\* Q-value max_a Q(s, a) = get_next_values()(s), which is V(s) when the final
\* estimate is a fixed point of the backup.
C7_FinalPolicyGreedyForFinalValues ==
    (Deterministic /\ pc = "done") =>
        /\ policy = GetNextPolicy(value_fun)
        /\ \A s \in States :
              /\ \E a \in Actions : policy[s][a] = One
              /\ \A a \in Actions : policy[s][a] = One =>
                    /\ \A b \in Actions :
                          Leq(QValue(value_fun, s, b), QValue(value_fun, s, a))
                    /\ QValue(value_fun, s, a) = GetNextValues(value_fun)[s]
                    /\ GetNextValues(value_fun) = value_fun =>
                          QValue(value_fun, s, a) = value_fun[s]

\* train returned by convergence on a fixed point reached by backups, with a
\* policy that no iteration of the loop had left in the container
C7_Witness ==
    /\ Deterministic /\ pc = "done" /\ stop
    /\ itr >= 2 /\ log_itr = 2 /\ itr % 2 = 0
    /\ GetNextValues(value_fun) = value_fun
    /\ value_fun # v

\* C8 as stated: for every log_itr each iteration updates the value container
\* once and the policy container once.
C8_BothContainersOncePerIteration ==
    pc = "test" => (n_value_upd = itr /\ n_policy_upd = itr)

\* C8 amended: each iteration of the loop updates the value container exactly
\* once, with the whole vector get_next_values returned, and updates the
\* policy container exactly once when itr % log_itr = 0 at its start and not
\* at all otherwise.
C8_ValueOncePolicyOnLogIterations ==
    [][pc = "body" =>
          /\ n_value_upd' = n_value_upd + 1
          /\ value_fun' = GetNextValues(value_fun)
          /\ n_policy_upd' = n_policy_upd + (IF itr % log_itr = 0 THEN 1 ELSE 0)
          /\ itr % log_itr # 0 => policy' = policy]_vars

\* two iterations done, of which only the first updated the policy container
C8_Witness ==
    /\ pc = "test" /\ itr = 2 /\ log_itr = 2
    /\ n_value_upd = 2 /\ n_policy_upd = 1

\* C9: the loop is left only with 0 <= itr <= max_itr, the value container
\* updated itr times, and _stop_condition true or itr = max_itr; a run that
\* is no longer in the loop has left it that way.
C9_LoopLeftOnlyByStopOrBudget ==
    pc \notin {"test", "body"} =>
        /\ LoopLeft
        /\ 0 <= itr /\ itr <= max_itr
        /\ n_value_upd = itr
        /\ stop \/ itr = max_itr

\* C10: _stop_condition returns for every discount in [0, 1), discount = 0
\* included, so that train never ends in an error at a loop test.
C10_StopConditionNeverRaises == pc # "error"

====
